---- MODULE Spec2Model ----
(***************************************************************************)
(* Model of the EDA batch pipeline ("EDA using Python/functions.py"):      *)
(* load_dataset -> process_first_year_stats -> rename_header ->            *)
(* save_outputs, driven by the __main__ block.                             *)
(*                                                                         *)
(* Text is a sequence of one-character strings, so that strip(), lower(),  *)
(* the regular expressions and the string sort of the pivot are computed   *)
(* character by character.  A table is [columns, rows]: the column names   *)
(* and the rows as tuples aligned with them.  Python's None is the empty   *)
(* sequence and a present value x is <<x>>.  Numbers in the value column   *)
(* are exact decimals counted in hundredths.                               *)
(***************************************************************************)
EXTENDS Integers, Sequences, FiniteSets, TLC

VARIABLES
    pc,            \* the stage the run is about to invoke, or "done"
    source,        \* what pd.read_csv(url) does: raises, or yields a table
    df,            \* __main__'s df / the stage's argument
    df_processed,  \* __main__'s df_processed
    df_renamed,    \* __main__'s df_renamed
    err,           \* __main__'s err
    csv_path,      \* destination of the CSV write
    parquet_path,  \* destination of the Parquet write
    writable,      \* the paths that can be opened for writing
    files,         \* the file system: path -> None or the file written there
    log,           \* the records handed to logging.info / logging.error
    calls,         \* history: one record per stage invocation, in order
    uncaught       \* an exception that left a stage and reached the caller

vars == <<pc, source, df, df_processed, df_renamed, err, csv_path,
          parquet_path, writable, files, log, calls, uncaught>>

(***************************************************************************)
(* Bounds of the checked instances.                                        *)
(***************************************************************************)
MaxNameLen == 4
MaxRows == 3
MaxYear == 12

(***************************************************************************)
(* Python values.                                                          *)
(***************************************************************************)
None == <<>>
Some(x) == <<x>>
IsNone(o) == o = <<>>
Get(o) == o[1]

Min(S) == CHOOSE m \in S : \A n \in S : m <= n
Max(S) == CHOOSE m \in S : \A n \in S : m >= n

(***************************************************************************)
(* Characters, in code-point order.                                        *)
(***************************************************************************)
Chars ==
    <<"\t", " ", "%", "(", ")", ",", "-", ".", "/",
      "0", "1", "2", "3", "4", "5", "6", "7", "8", "9",
      "A", "B", "C", "D", "E", "F", "G", "H", "I", "J", "K", "L", "M",
      "N", "O", "P", "Q", "R", "S", "T", "U", "V", "W", "X", "Y", "Z",
      "_",
      "a", "b", "c", "d", "e", "f", "g", "h", "i", "j", "k", "l", "m",
      "n", "o", "p", "q", "r", "s", "t", "u", "v", "w", "x", "y", "z">>

CharSet == {Chars[i] : i \in 1..Len(Chars)}
Ord == [c \in CharSet |-> CHOOSE i \in 1..Len(Chars) : Chars[i] = c]

Whitespace == {"\t", " "}
Digits == {Chars[i] : i \in Ord["0"]..Ord["9"]}
UpperCase == {Chars[i] : i \in Ord["A"]..Ord["Z"]}
LowerCase == {Chars[i] : i \in Ord["a"]..Ord["z"]}
\* \w of the re module
WordChars == Digits \cup UpperCase \cup LowerCase \cup {"_"}

\* str.lower() on one character
LowerChar(c) ==
    IF c \in UpperCase THEN Chars[Ord[c] - Ord["A"] + Ord["a"]] ELSE c

\* str.lower()
Lower(s) == [i \in 1..Len(s) |-> LowerChar(s[i])]

\* str.strip()
Strip(s) ==
    LET keep == {i \in 1..Len(s) : s[i] \notin Whitespace}
    IN  IF keep = {} THEN <<>> ELSE SubSeq(s, Min(keep), Max(keep))

\* Python's < on str: lexicographic by code point
RECURSIVE StrLess(_, _)
StrLess(a, b) ==
    IF b = <<>> THEN FALSE
    ELSE IF a = <<>> THEN TRUE
    ELSE IF Head(a) = Head(b) THEN StrLess(Tail(a), Tail(b))
    ELSE Ord[Head(a)] < Ord[Head(b)]

\* The elements of a set of strings in ascending order (the sort of a
\* groupby / pivot axis).
RECURSIVE SortStrings(_)
SortStrings(S) ==
    IF S = {} THEN <<>>
    ELSE LET least == CHOOSE a \in S : \A b \in S \ {a} : StrLess(a, b)
         IN  <<least>> \o SortStrings(S \ {least})

Range(q) == {q[i] : i \in 1..Len(q)}

(***************************************************************************)
(* Messages: the text of an error / log record, with the values its        *)
(* f-string interpolates.                                                  *)
(***************************************************************************)
Msg(text, path, detail, columns) ==
    [text |-> text, path |-> path, detail |-> detail, columns |-> columns]

LogRec(level, msg) == [level |-> level, msg |-> msg]

(***************************************************************************)
(* load_dataset                                                            *)
(***************************************************************************)
mandatory_cols ==
    << <<"s","t","a","t","i","s","t","i","c"," ","l","a","b","e","l">>,
       <<"y","e","a","r">>,
       <<"s","e","x">>,
       <<"u","n","i","t">>,
       <<"v","a","l","u","e">> >>

\* Mutant of cols_lower: the names are lowercased but not trimmed.
cols_lower_no_strip(columns) == [i \in 1..Len(columns) |-> Lower(columns[i])]

\* cols_lower = [col.strip().lower() for col in df.columns]
cols_lower(columns) == [i \in 1..Len(columns) |-> Lower(Strip(columns[i]))]

\* missing_cols = [col for col in mandatory_cols if col not in cols_lower]
InCols(col, columns) == \E i \in 1..Len(columns) : cols_lower(columns)[i] = col

missing_cols(columns) ==
    LET NotIn(col) == ~InCols(col, columns)
    IN  SelectSeq(mandatory_cols, NotIn)

\* The try body: the exception it raises (None if it returns), the pair it
\* returns and what it logs.
load_dataset_body(src) ==
    IF ~IsNone(src.raises)
    THEN [raised |-> src.raises, ret |-> <<None, None>>, log |-> <<>>]
    ELSE LET missing == missing_cols(src.table.columns)
             loaded == LogRec("INFO",
                          Msg("Dataset loaded successfully", "", "", <<>>))
         IN  IF missing # <<>>
             THEN LET error_msg ==
                        Msg("Schema error: missing mandatory columns", "", "",
                            missing)
                  IN  [raised |-> None,
                       ret |-> <<None, Some(error_msg)>>,
                       log |-> <<loaded, LogRec("ERROR", error_msg)>>]
             ELSE [raised |-> None,
                   ret |-> <<Some(src.table), None>>,
                   log |-> <<loaded>>]

\* except Exception as e: log and return (None, "Error loading dataset: {e}")
load_dataset(src) ==
    LET b == load_dataset_body(src)
    IN  IF IsNone(b.raised)
        THEN [raised |-> None, ret |-> b.ret, log |-> b.log, escapes |-> None]
        ELSE LET error_msg == Msg("Error loading dataset", "", Get(b.raised), <<>>)
             IN  [raised |-> b.raised,
                  ret |-> <<None, Some(error_msg)>>,
                  log |-> b.log \o <<LogRec("ERROR", error_msg)>>,
                  escapes |-> None]

(***************************************************************************)
(* rename_header                                                           *)
(***************************************************************************)
\* re.sub(cls+, repl, s): every maximal run of characters of cls becomes repl
RECURSIVE SkipRun(_, _)
SkipRun(s, cls) ==
    IF s # <<>> /\ Head(s) \in cls THEN SkipRun(Tail(s), cls) ELSE s

RECURSIVE SubRuns(_, _, _)
SubRuns(s, cls, repl) ==
    IF s = <<>> THEN <<>>
    ELSE IF Head(s) \in cls THEN repl \o SubRuns(SkipRun(s, cls), cls, repl)
    ELSE <<Head(s)>> \o SubRuns(Tail(s), cls, repl)

\* re.sub(cls+$, "", s): the run of cls characters that ends the string goes
RECURSIVE SubTrailingRun(_, _)
SubTrailingRun(s, cls) ==
    IF s # <<>> /\ s[Len(s)] \in cls
    THEN SubTrailingRun(SubSeq(s, 1, Len(s) - 1), cls)
    ELSE s

\* [\s,()]
Separators == Whitespace \cup {",", "(", ")"}

\* Mutant of RenameCol: the trailing underscores are not removed.
RenameCol_keep_trailing(col) ==
    SubRuns(SubRuns(Lower(Strip(col)), Separators, <<"_">>), {"_"}, <<"_">>)

\* The expression applied to each column name.
RenameCol(col) ==
    SubTrailingRun(
        SubRuns(
            SubRuns(Lower(Strip(col)), Separators, <<"_">>),
            {"_"}, <<"_">>),
        {"_"})

\* The try body.  fault is an exception some call inside the body raises
\* unexpectedly (None: no such exception).
rename_header_body(d, fault) ==
    IF IsNone(d)
    THEN [raised |-> Some("No DataFrame provided for transformation."),
          ret |-> <<None, None>>, log |-> <<>>]
    ELSE IF ~IsNone(fault)
    THEN [raised |-> fault, ret |-> <<None, None>>, log |-> <<>>]
    ELSE LET t == Get(d)
             renamed == [t EXCEPT !.columns =
                            [i \in 1..Len(t.columns) |-> RenameCol(t.columns[i])]]
         IN  [raised |-> None,
              ret |-> <<Some(renamed), None>>,
              log |-> <<LogRec("INFO",
                          Msg("Headers renamed successfully", "", "", <<>>))>>]

rename_header(d, fault) ==
    LET b == rename_header_body(d, fault)
    IN  IF IsNone(b.raised)
        THEN [raised |-> None, ret |-> b.ret, log |-> b.log, escapes |-> None]
        ELSE LET error_msg == Msg("Error renaming headers", "", Get(b.raised), <<>>)
             IN  [raised |-> b.raised,
                  ret |-> <<None, Some(error_msg)>>,
                  log |-> b.log \o <<LogRec("ERROR", error_msg)>>,
                  escapes |-> None]

(***************************************************************************)
(* process_first_year_stats                                                *)
(***************************************************************************)
\* df.columns.str.strip().str.lower()
normalize_columns(columns) ==
    [i \in 1..Len(columns) |-> Lower(Strip(columns[i]))]

HasCol(columns, name) == \E i \in 1..Len(columns) : columns[i] = name
ColIndex(columns, name) == CHOOSE i \in 1..Len(columns) : columns[i] = name

\* The columns the body reads, in the order it first reads them
\* (lines 62, 65, 67, 70, 74): the first one absent is the KeyError.
ColLabel == mandatory_cols[1]
ColYear == mandatory_cols[2]
ColSex == mandatory_cols[3]
ColUnit == mandatory_cols[4]
ColValue == mandatory_cols[5]
ReadOrder == <<ColLabel, ColSex, ColValue, ColYear, ColUnit>>

\* pattern = r"\b(first year|1st year)\b"
pattern ==
    { <<"f","i","r","s","t"," ","y","e","a","r">>,
      <<"1","s","t"," ","y","e","a","r">> }

\* \b at position k, between s[k-1] and s[k]
IsWordAt(s, i) == i \in 1..Len(s) /\ s[i] \in WordChars
WordBoundary(s, k) == IsWordAt(s, k - 1) # IsWordAt(s, k)

\* Mutant of ContainsPattern: the pattern without its \b anchors.
ContainsPattern_substring(s) ==
    LET low == Lower(s)
    IN  \E p \in pattern : \E i \in 1..(Len(s) - Len(p) + 1) :
            SubSeq(low, i, i + Len(p) - 1) = p

\* str.contains(pattern, case=False, regex=True)
ContainsPattern(s) ==
    LET low == Lower(s)
    IN  \E p \in pattern : \E i \in 1..(Len(s) - Len(p) + 1) :
            /\ SubSeq(low, i, i + Len(p) - 1) = p
            /\ WordBoundary(s, i)
            /\ WordBoundary(s, i + Len(p))

\* df['sex'].replace({'M': 'Male', 'F': 'Female', 'Both': 'Both sexes'})
ReplaceSex(sex) ==
    IF sex = <<"M">> THEN <<"M","a","l","e">>
    ELSE IF sex = <<"F">> THEN <<"F","e","m","a","l","e">>
    ELSE IF sex = <<"B","o","t","h">>
         THEN <<"B","o","t","h"," ","s","e","x","e","s">>
    ELSE sex

\* The digits of a decimal literal as a number.
RECURSIVE DigitsValue(_)
DigitsValue(s) ==
    IF s = <<>> THEN 0
    ELSE 10 * DigitsValue(SubSeq(s, 1, Len(s) - 1))
            + (Ord[s[Len(s)]] - Ord["0"])

AllDigits(s) == s # <<>> /\ \A i \in 1..Len(s) : s[i] \in Digits

\* A text cell the numeric parser accepts: [-]digits[.d[d]]; its value in
\* hundredths.  Anything else is NaN (None).
ParseUnsigned(s) ==
    LET dots == {i \in 1..Len(s) : s[i] = "."}
    IN  IF dots = {} THEN
            IF AllDigits(s) THEN Some(100 * DigitsValue(s)) ELSE None
        ELSE LET d == Min(dots)
                 whole == SubSeq(s, 1, d - 1)
                 frac == SubSeq(s, d + 1, Len(s))
             IN  IF AllDigits(whole) /\ AllDigits(frac) /\ Len(frac) <= 2
                 THEN Some(100 * DigitsValue(whole)
                           + (IF Len(frac) = 1 THEN 10 ELSE 1) * DigitsValue(frac))
                 ELSE None

ParseNumber(s) ==
    IF s # <<>> /\ Head(s) = "-"
    THEN LET u == ParseUnsigned(Tail(s))
         IN  IF IsNone(u) THEN None ELSE Some(-Get(u))
    ELSE ParseUnsigned(s)

\* pd.to_numeric(v, errors='coerce'), then fillna(0).  A cell is
\* <<"num", hundredths>> or <<"str", text>>.
CoerceValue(cell) ==
    IF cell[1] = "num" THEN cell[2]
    ELSE LET n == ParseNumber(cell[2])
         IN  IF IsNone(n) THEN 0 ELSE Get(n)

\* str(n) for an integer
RECURSIVE NatToStr(_)
NatToStr(n) ==
    IF n < 10 THEN <<Chars[Ord["0"] + n]>>
    ELSE NatToStr(n \div 10) \o <<Chars[Ord["0"] + (n % 10)]>>

IntToStr(n) == IF n < 0 THEN <<"-">> \o NatToStr(-n) ELSE NatToStr(n)

\* Mutant of year_group: division that truncates toward zero.
year_group_truncating(year) ==
    IF year < 0 THEN -(((-year) \div 5) * 5) ELSE (year \div 5) * 5

\* (df['year'] // 5) * 5
year_group(year) == (year \div 5) * 5

\* df['year_group'].astype(str) + "-" + (df['year_group'] + 4).astype(str)
year_range(year) ==
    IntToStr(year_group(year)) \o <<"-">> \o IntToStr(year_group(year) + 4)

\* df['unit'].str.lower() == 'number'
IsCountUnit(unit) == Lower(unit) = <<"n","u","m","b","e","r">>

\* df['unit'].str.strip().str.lower().isin(['%', 'percentage'])
IsPercUnit(unit) ==
    Lower(Strip(unit)) \in
        { <<"%">>, <<"p","e","r","c","e","n","t","a","g","e">> }

\* The filtered frame after lines 62-71, one record per kept row.
FirstYearRows(t) ==
    LET cols == normalize_columns(t.columns)
        label == ColIndex(cols, ColLabel)
        sex == ColIndex(cols, ColSex)
        value == ColIndex(cols, ColValue)
        year == ColIndex(cols, ColYear)
        unit == ColIndex(cols, ColUnit)
        kept == SelectSeq(t.rows, LAMBDA row : ContainsPattern(row[label]))
    IN  [i \in 1..Len(kept) |->
            [sex |-> ReplaceSex(kept[i][sex]),
             value |-> CoerceValue(kept[i][value]),
             year_range |-> year_range(kept[i][year]),
             unit |-> kept[i][unit]]]

\* Mutant of df_counts: the counts subset is not restricted by unit.
df_counts_any_unit(rows) == rows

\* df_counts / df_perc
df_counts(rows) == SelectSeq(rows, LAMBDA r : IsCountUnit(r.unit))
df_perc(rows) == SelectSeq(rows, LAMBDA r : IsPercUnit(r.unit))

\* The rows of one (year_range, sex) group.
Group(rows, yr, sex) ==
    SelectSeq(rows, LAMBDA r : r.year_range = yr /\ r.sex = sex)

RECURSIVE SumValues(_)
SumValues(rows) ==
    IF rows = <<>> THEN 0 ELSE Head(rows).value + SumValues(Tail(rows))

\* round-half-to-even of num/den, den > 0 (numpy's round)
RoundHalfEven(num, den) ==
    LET q == num \div den
        r == num % den
    IN  IF 2 * r < den THEN q
        ELSE IF 2 * r > den THEN q + 1
        ELSE IF q % 2 = 0 THEN q ELSE q + 1

\* The axes of a pivot: the distinct keys, sorted.
PivotIndex(rows) == SortStrings({rows[i].year_range : i \in 1..Len(rows)})
PivotColumns(rows) == SortStrings({rows[i].sex : i \in 1..Len(rows)})

\* Mutant of counts_wide: the empty cells are filled with 0, as the
\* percentages are.
counts_wide_filled(rows) ==
    LET c == df_counts(rows)
        index == Range(PivotIndex(c))
        columns == Range(PivotColumns(c))
    IN  [yr \in index |->
            [sex \in columns |-> Some(SumValues(Group(c, yr, sex)))]]

\* counts_wide before the conversion: the sum of each group in hundredths,
\* NaN (None) where the group has no row.
counts_wide(rows) ==
    LET c == df_counts(rows)
        index == Range(PivotIndex(c))
        columns == Range(PivotColumns(c))
    IN  [yr \in index |->
            [sex \in columns |->
                LET g == Group(c, yr, sex)
                IN  IF g = <<>> THEN None ELSE Some(SumValues(g))]]

\* perc_wide after fillna(0.0).round(1): the mean of each group in tenths.
perc_wide(rows) ==
    LET p == df_perc(rows)
        index == Range(PivotIndex(p))
        columns == Range(PivotColumns(p))
    IN  [yr \in index |->
            [sex \in columns |->
                LET g == Group(p, yr, sex)
                IN  IF g = <<>> THEN 0
                    ELSE RoundHalfEven(10 * SumValues(g), 100 * Len(g))]]

\* counts_wide.round(0).astype(int) raises on a NaN cell.
HasNaN(wide) ==
    \E yr \in DOMAIN wide : \E sex \in DOMAIN wide[yr] : IsNone(wide[yr][sex])

Suffix(names, suffix) == [i \in 1..Len(names) |-> names[i] \o suffix]

\* Mutant of merged: how='left', every bucket of the counts pivot is kept
\* (NaN, None, in the percent cells of a bucket without percentages).
merged_left(cw, pw) ==
    LET cidx == SortStrings(DOMAIN cw)
        csex == IF cidx = <<>> THEN <<>> ELSE SortStrings(DOMAIN cw[cidx[1]])
        psex == IF DOMAIN pw = {} THEN <<>>
                ELSE SortStrings(DOMAIN pw[CHOOSE yr \in DOMAIN pw : TRUE])
    IN  [columns |->
            << <<"y","e","a","r","_","r","a","n","g","e">> >>
            \o Suffix(csex, <<"_","c","o","u","n","t">>)
            \o Suffix(psex, <<"_","p","e","r","c","e","n","t">>),
         rows |->
            [k \in 1..Len(cidx) |->
                <<cidx[k]>>
                \o [i \in 1..Len(csex) |->
                       RoundHalfEven(Get(cw[cidx[k]][csex[i]]), 100)]
                \o [i \in 1..Len(psex) |->
                       IF cidx[k] \in DOMAIN pw THEN pw[cidx[k]][psex[i]]
                       ELSE None]]]

\* pd.merge(counts_wide, perc_wide, on='year_range', how='inner').reset_index()
\* cw is counts_wide.round(0).astype(int) seen through its sums, pw perc_wide.
merged(cw, pw) ==
    LET cidx == SortStrings(DOMAIN cw)
        csex == IF cidx = <<>> THEN <<>> ELSE SortStrings(DOMAIN cw[cidx[1]])
        psex == IF DOMAIN pw = {} THEN <<>>
                ELSE SortStrings(DOMAIN pw[CHOOSE yr \in DOMAIN pw : TRUE])
        both == SelectSeq(cidx, LAMBDA yr : yr \in DOMAIN pw)
    IN  [columns |->
            << <<"y","e","a","r","_","r","a","n","g","e">> >>
            \o Suffix(csex, <<"_","c","o","u","n","t">>)
            \o Suffix(psex, <<"_","p","e","r","c","e","n","t">>),
         rows |->
            [k \in 1..Len(both) |->
                <<both[k]>>
                \o [i \in 1..Len(csex) |->
                       RoundHalfEven(Get(cw[both[k]][csex[i]]), 100)]
                \o [i \in 1..Len(psex) |-> pw[both[k]][psex[i]]]]]

\* str(KeyError(name)) for the column the body fails to find
KeyErrorText(name) ==
    IF name = ColLabel THEN "'statistic label'"
    ELSE IF name = ColSex THEN "'sex'"
    ELSE IF name = ColValue THEN "'value'"
    ELSE IF name = ColYear THEN "'year'"
    ELSE "'unit'"

\* The try body.  fault is an exception some call inside the body raises
\* unexpectedly (None: no such exception).
process_first_year_stats_body(d, fault) ==
    LET t == Get(d)
        cols == normalize_columns(t.columns)
        absent == SelectSeq(ReadOrder, LAMBDA c : ~HasCol(cols, c))
        rows == FirstYearRows(t)
        cw == counts_wide(rows)
    IN  IF IsNone(d)
        THEN [raised |-> Some("'NoneType' object has no attribute 'columns'"),
              ret |-> <<None, None>>]
        ELSE IF ~IsNone(fault)
        THEN [raised |-> fault, ret |-> <<None, None>>]
        ELSE IF absent # <<>>
        THEN [raised |-> Some(KeyErrorText(absent[1])), ret |-> <<None, None>>]
        ELSE IF HasNaN(cw)
        THEN [raised |->
                Some("Cannot convert non-finite values (NA or inf) to integer"),
              ret |-> <<None, None>>]
        ELSE [raised |-> None,
              ret |-> <<Some(merged(cw, perc_wide(rows))), None>>]

\* Mutant of process_first_year_stats: no except clause, the exception
\* leaves the stage.
process_first_year_stats_unhandled(d, fault) ==
    LET b == process_first_year_stats_body(d, fault)
    IN  [raised |-> b.raised, ret |-> b.ret, log |-> <<>>, escapes |-> b.raised]

process_first_year_stats(d, fault) ==
    LET b == process_first_year_stats_body(d, fault)
    IN  IF IsNone(b.raised)
        THEN [raised |-> None, ret |-> b.ret, log |-> <<>>, escapes |-> None]
        ELSE LET error_msg ==
                    Msg("Error transforming dataset", "", Get(b.raised), <<>>)
             IN  [raised |-> b.raised,
                  ret |-> <<None, Some(error_msg)>>,
                  log |-> <<LogRec("ERROR", error_msg)>>,
                  escapes |-> None]

(***************************************************************************)
(* save_outputs                                                            *)
(***************************************************************************)
\* What a successful write leaves at its destination (index=False: the
\* columns and rows of the table, nothing else).
FileOf(format, t) == [format |-> format, table |-> t]

\* df.to_csv(path, index=False) / df.to_parquet(path, index=False): the
\* exception raised (None if the file was written) and the file system after.
WriteFile(format, d, path, canWrite, fs) ==
    IF IsNone(d)
    THEN [raised |-> Some("'NoneType' object has no attribute"), fs |-> fs]
    ELSE IF path \notin canWrite
    THEN [raised |-> Some("Cannot save file into a non-existent directory"),
          fs |-> fs]
    ELSE [raised |-> None,
          fs |-> [fs EXCEPT ![path] = Some(FileOf(format, Get(d)))]]

\* One try block of save_outputs: the write, then one log record.
SaveOne(format, saved, failed, d, path, canWrite, fs) ==
    LET w == WriteFile(format, d, path, canWrite, fs)
    IN  [fs |-> w.fs,
         write |-> [format |-> format, path |-> path, raised |-> w.raised],
         log |-> IF IsNone(w.raised)
                 THEN <<LogRec("INFO", Msg(saved, path, "", <<>>))>>
                 ELSE <<LogRec("ERROR", Msg(failed, path, Get(w.raised), <<>>))>>,
         escapes |-> None]

\* Mutant of save_outputs: both writes in one try block, so a failed CSV
\* write skips the Parquet write.
save_outputs_single_try(d, csv, parquet, canWrite, fs) ==
    LET c == SaveOne("csv", "Data saved to CSV", "Error saving CSV",
                     d, csv, canWrite, fs)
        q == SaveOne("parquet", "Data saved to Parquet", "Error saving Parquet",
                     d, parquet, canWrite, c.fs)
    IN  IF ~IsNone(c.write.raised)
        THEN [fs |-> c.fs, writes |-> <<c.write>>, log |-> c.log,
              escapes |-> None]
        ELSE [fs |-> q.fs, writes |-> <<c.write, q.write>>,
              log |-> c.log \o q.log, escapes |-> None]

\* The two try blocks in sequence; an exception leaving the first block
\* would skip the second.
save_outputs(d, csv, parquet, canWrite, fs) ==
    LET c == SaveOne("csv", "Data saved to CSV", "Error saving CSV",
                     d, csv, canWrite, fs)
    IN  IF ~IsNone(c.escapes)
        THEN [fs |-> c.fs, writes |-> <<c.write>>, log |-> c.log,
              escapes |-> c.escapes]
        ELSE LET q == SaveOne("parquet", "Data saved to Parquet",
                              "Error saving Parquet",
                              d, parquet, canWrite, c.fs)
             IN  [fs |-> q.fs, writes |-> <<c.write, q.write>>,
                  log |-> c.log \o q.log, escapes |-> q.escapes]

(***************************************************************************)
(* __main__: one action per stage invocation.                              *)
(***************************************************************************)
\* A record of the history: the stage invoked, its argument, the exception
\* raised inside its try body (None if none), the pair returned, the writes
\* attempted and the file system found.
Call(stage, arg, raised, ret, writes, before) ==
    [stage |-> stage, arg |-> arg, raised |-> raised, ret |-> ret,
     writes |-> writes, before |-> before]

\* Mutant of AfterStage: the next stage is invoked whatever was returned.
AfterStageUnchecked(next, ret) == next

\* "if df is not None:" before the next stage; otherwise the run is over.
AfterStage(next, ret) == IF ~IsNone(ret[1]) THEN next ELSE "done"

\* Exceptions a library call may raise inside a try body besides those the
\* model derives from the data.
Faults == {None, Some("Unable to allocate memory")}

\* df, err = load_dataset(url)
LoadStep ==
    /\ pc = "load"
    /\ \E r \in {load_dataset(source)} :
           /\ df' = r.ret[1]
           /\ err' = r.ret[2]
           /\ log' = log \o r.log
           /\ uncaught' = r.escapes
           /\ calls' = Append(calls,
                  Call("load_dataset", source, r.raised, r.ret, <<>>, files))
           /\ pc' = IF ~IsNone(r.escapes) THEN "done"
                    ELSE AfterStage("process", r.ret)
    /\ UNCHANGED <<source, df_processed, df_renamed, csv_path, parquet_path,
                   writable, files>>

\* df_processed, err = process_first_year_stats(df); line 58 renames the
\* columns of the caller's df in place.
ProcessStep ==
    /\ pc = "process"
    /\ \E fault \in Faults :
         \E r \in {process_first_year_stats(df, fault)} :
             /\ df' = IF IsNone(df) THEN df
                      ELSE Some([Get(df) EXCEPT
                                   !.columns = normalize_columns(Get(df).columns)])
             /\ df_processed' = r.ret[1]
             /\ err' = r.ret[2]
             /\ log' = log \o r.log
             /\ uncaught' = r.escapes
             /\ calls' = Append(calls,
                    Call("process_first_year_stats", df, r.raised, r.ret,
                         <<>>, files))
             /\ pc' = IF ~IsNone(r.escapes) THEN "done"
                      ELSE AfterStage("rename", r.ret)
    /\ UNCHANGED <<source, df_renamed, csv_path, parquet_path, writable, files>>

\* df_renamed, err = rename_header(df_processed); the table returned is the
\* argument itself, its columns reassigned.
RenameStep ==
    /\ pc = "rename"
    /\ \E fault \in Faults :
         \E r \in {rename_header(df_processed, fault)} :
             /\ df_renamed' = r.ret[1]
             /\ df_processed' = IF IsNone(r.ret[1]) THEN df_processed
                                ELSE r.ret[1]
             /\ err' = r.ret[2]
             /\ log' = log \o r.log
             /\ uncaught' = r.escapes
             /\ calls' = Append(calls,
                    Call("rename_header", df_processed, r.raised, r.ret, <<>>,
                         files))
             /\ pc' = IF ~IsNone(r.escapes) THEN "done"
                      ELSE AfterStage("save", r.ret)
    /\ UNCHANGED <<source, df, csv_path, parquet_path, writable, files>>

\* save_outputs(df_renamed, csv_path, parquet_path)
SaveStep ==
    /\ pc = "save"
    /\ \E r \in {save_outputs(df_renamed, csv_path, parquet_path, writable,
                              files)} :
           /\ files' = r.fs
           /\ log' = log \o r.log
           /\ uncaught' = r.escapes
           /\ calls' = Append(calls,
                  Call("save_outputs", df_renamed, None, <<None, None>>, r.writes,
                       files))
    /\ pc' = "done"
    /\ UNCHANGED <<source, df, df_processed, df_renamed, err, csv_path,
                   parquet_path, writable>>

\* rename_header applied to the table an earlier rename_header returned.
RenameAgainStep ==
    /\ pc = "save"
    /\ \E fault \in Faults :
         \E r \in {rename_header(df_renamed, fault)} :
             /\ df_renamed' = r.ret[1]
             /\ df_processed' = IF IsNone(r.ret[1]) THEN df_processed
                                ELSE r.ret[1]
             /\ err' = r.ret[2]
             /\ log' = log \o r.log
             /\ uncaught' = r.escapes
             /\ calls' = Append(calls,
                    Call("rename_header", df_renamed, r.raised, r.ret, <<>>,
                         files))
             /\ pc' = "done"
    /\ UNCHANGED <<source, df, csv_path, parquet_path, writable, files>>

(***************************************************************************)
(* Inputs of the checked instances.                                        *)
(***************************************************************************)
\* The header of the published dataset, as the CSV spells it.
RawColumns ==
    << <<"S","t","a","t","i","s","t","i","c"," ","L","a","b","e","l">>,
       <<"Y","e","a","r">>, <<"S","e","x">>, <<"U","N","I","T">>, <<"V","A","L","U","E">> >>

\* The same header with the sex column under another name.
NoSexColumns ==
    << <<"S","t","a","t","i","s","t","i","c"," ","L","a","b","e","l">>,
       <<"Y","e","a","r">>, <<"G","e","n","d","e","r">>, <<"U","N","I","T">>, <<"V","A","L","U","E">> >>

\* Rows <<statistic label, year, sex, unit, value>>.
RowList ==
    << << <<"F","i","r","s","t"," ","Y","e","a","r">>,
         2003, <<"M">>, <<"N","u","m","b","e","r">>, <<"num", 150>> >>,
      << <<"F","i","r","s","t"," ","Y","e","a","r">>,
         2003, <<"M">>, <<"%">>, <<"num", 25>> >>,
      << <<"F","i","r","s","t"," ","Y","e","a","r">>,
         2003, <<"F","e","m","a","l","e">>, <<"N","u","m","b","e","r">>, <<"num", 50>> >>,
      << <<"F","i","r","s","t"," ","Y","e","a","r">>,
         2003, <<"F","e","m","a","l","e">>, <<"%">>, <<"num", 4050>> >>,
      << <<"F","i","r","s","t"," ","Y","e","a","r">>,
         2007, <<"M">>, <<"N","u","m","b","e","r">>, <<"num", 250>> >>,
      << <<"F","i","r","s","t"," ","Y","e","a","r">>,
         2007, <<"M">>, <<"%">>, <<"num", 5015>> >>,
      << <<"F","i","r","s","t"," ","Y","e","a","r">>,
         2007, <<"F","e","m","a","l","e">>, <<"N","u","m","b","e","r">>, <<"num", 100>> >>,
      << <<"F","i","r","s","t"," ","Y","e","a","r">>,
         2007, <<"F","e","m","a","l","e">>, <<"%">>, <<"num", 35>> >>,
      << <<"f","i","r","s","t"," ","y","e","a","r","s">>,
         2007, <<"F">>, <<" ","%">>, <<"num", 7000>> >>,
      << <<"F","I","R","S","T">>,
         2012, <<"X">>, <<"%">>, <<"num", 1000>> >>,
      << <<"M","y"," ","1","s","t"," ","Y","E","A","R",".">>,
         2003, <<"F">>, <<"P","e","r","c","e","n","t","a","g","e"," ">>, <<"str", <<"1","2",".","5">>>> >>,
      << <<"1","s","t"," ","y","e","a","r">>,
         2010, <<"B","o","t","h">>, <<"N","U","M","B","E","R">>, <<"str", <<"n","/","a">>>> >>,
      << <<"F","i","r","s","t"," ","Y","e","a","r">>,
         2007, <<"B","o","t","h">>, <<" ","n","u","m","b","e","r">>, <<"num", 300>> >> >>

RowPool == Range(RowList)

Table(columns, rows) == [columns |-> columns, rows |-> rows]

SeqsUpTo(S, n) == UNION {[1..k -> S] : k \in 0..n}

Paths == {"result.csv", "result.parquet", "nonexistent_dir/file.csv"}

NoFiles == [p \in Paths |-> None]
OldFiles == [p \in Paths |-> Some(FileOf("old", Table(<<>>, <<>>)))]

\* The variables a stage called on its own does not read.
Idle ==
    /\ source = [raises |-> None, table |-> Table(<<>>, <<>>)]
    /\ err = None
    /\ csv_path = "result.csv"
    /\ parquet_path = "result.parquet"
    /\ writable = Paths
    /\ files = NoFiles
    /\ log = <<>>
    /\ calls = <<>>
    /\ uncaught = None

(***************************************************************************)
(* process_first_year_stats on its own, over every table of up to MaxRows  *)
(* rows of RowPool.                                                        *)
(***************************************************************************)
InitAgg ==
    /\ pc = "process"
    /\ \E rows \in SeqsUpTo(RowPool, MaxRows) :
       \E columns \in {RawColumns, NoSexColumns} :
          /\ columns = NoSexColumns => Len(rows) <= 1
          /\ df = Some(Table(columns, rows))
    /\ df_processed = None
    /\ df_renamed = None
    /\ Idle

SpecAgg == InitAgg /\ [][ProcessStep]_vars

(***************************************************************************)
(* Vocabulary of the properties of process_first_year_stats.  The input    *)
(* is read from the rows of df as the caller passed them                   *)
(* (<<statistic label, year, sex, unit, value>>), not from the stage's own *)
(* intermediate frames.                                                    *)
(***************************************************************************)
LastCall == calls[Len(calls)]

\* process_first_year_stats has been called on df and nothing since.
AggCalled ==
    /\ calls # <<>>
    /\ LastCall.stage = "process_first_year_stats"

AggReturned == AggCalled /\ ~IsNone(LastCall.ret[1])

\* The exception a library call raised unexpectedly in the last call.
InjectedFault ==
    IF LastCall.raised \in Faults THEN LastCall.raised ELSE None

\* The label holds "first year" or "1st year" as a whole word, whatever the
\* case: no letter, digit or underscore touches the phrase on either side.
HasFirstYearPhrase(label) ==
    \E p \in pattern : \E i \in 1..Len(label) :
        LET j == i + Len(p) - 1
        IN  /\ j <= Len(label)
            /\ \A k \in 1..Len(p) : LowerChar(label[i + k - 1]) = p[k]
            /\ i > 1 => label[i - 1] \notin WordChars
            /\ j < Len(label) => label[j + 1] \notin WordChars

InputRows == Get(df).rows

\* The input rows of one unit kind that land in bucket yr under sex s.
CountRowsOf(yr, s) ==
    SelectSeq(InputRows, LAMBDA r :
        /\ HasFirstYearPhrase(r[1])
        /\ year_range(r[2]) = yr
        /\ ReplaceSex(r[3]) = s
        /\ Lower(r[4]) = <<"n","u","m","b","e","r">>)

PercRowsOf(yr, s) ==
    SelectSeq(InputRows, LAMBDA r :
        /\ HasFirstYearPhrase(r[1])
        /\ year_range(r[2]) = yr
        /\ ReplaceSex(r[3]) = s
        /\ Lower(Strip(r[4])) \in
              { <<"%">>, <<"p","e","r","c","e","n","t","a","g","e">> })

InputSexes == {ReplaceSex(InputRows[i][3]) : i \in 1..Len(InputRows)}
InputBuckets == {year_range(InputRows[i][2]) : i \in 1..Len(InputRows)}

CountBuckets == {yr \in InputBuckets : \E s \in InputSexes : CountRowsOf(yr, s) # <<>>}
PercBuckets == {yr \in InputBuckets : \E s \in InputSexes : PercRowsOf(yr, s) # <<>>}
CountSexes == {s \in InputSexes : \E yr \in InputBuckets : CountRowsOf(yr, s) # <<>>}
PercSexes == {s \in InputSexes : \E yr \in InputBuckets : PercRowsOf(yr, s) # <<>>}

RECURSIVE SumCoerced(_)
SumCoerced(rows) ==
    IF rows = <<>> THEN 0
    ELSE CoerceValue(Head(rows)[5]) + SumCoerced(Tail(rows))

\* The sum of a group rounded to an integer; the mean of a group rounded to
\* one decimal, in tenths, and not a number (None) for a group of no rows.
RoundedSum(rows) == RoundHalfEven(SumCoerced(rows), 100)
RoundedMean(rows) ==
    IF rows = <<>> THEN None
    ELSE Some(RoundHalfEven(10 * SumCoerced(rows), 100 * Len(rows)))

CountSuffix == <<"_","c","o","u","n","t">>
PercentSuffix == <<"_","p","e","r","c","e","n","t">>

OutTable == Get(df_processed)
OutLabels == {OutTable.rows[k][1] : k \in 1..Len(OutTable.rows)}

(***************************************************************************)
(* C5: whenever process_first_year_stats returns a table, its year_range   *)
(* values are exactly the buckets that occur both among the count rows and *)
(* among the percentage rows, one output row per bucket.                   *)
(***************************************************************************)
C5_InnerJoin ==
    AggReturned =>
        /\ OutLabels = CountBuckets \cap PercBuckets
        /\ Len(OutTable.rows) = Cardinality(CountBuckets \cap PercBuckets)

\* A table is returned with a row, while one bucket has only count rows and
\* is absent from it.
C5_Witness ==
    /\ AggReturned
    /\ Len(OutTable.rows) >= 1
    /\ \E yr \in CountBuckets : yr \notin PercBuckets /\ yr \notin OutLabels

(***************************************************************************)
(* C6 as stated: every {sex}_count cell is the rounded sum of the count    *)
(* rows of its bucket and sex, and every {sex}_percent cell is the rounded *)
(* mean of the percentage rows of its bucket and sex.                      *)
(***************************************************************************)
C6_Original ==
    AggReturned =>
        \A k \in 1..Len(OutTable.rows) : \A j \in 2..Len(OutTable.columns) :
            LET col == OutTable.columns[j]
                yr == OutTable.rows[k][1]
                v == OutTable.rows[k][j]
            IN  /\ \E s \in InputSexes :
                       col \in {s \o CountSuffix, s \o PercentSuffix}
                /\ \A s \in InputSexes :
                      /\ col = s \o CountSuffix =>
                             v = RoundedSum(CountRowsOf(yr, s))
                      /\ col = s \o PercentSuffix =>
                             Some(v) = RoundedMean(PercRowsOf(yr, s))

(***************************************************************************)
(* C6 amended: every {sex}_count cell is the rounded sum of the count rows *)
(* of its bucket and sex (there is at least one); a {sex}_percent cell is  *)
(* the rounded mean of the percentage rows of its bucket and sex when      *)
(* there is at least one, and 0.0 when there is none.  No row of one unit  *)
(* kind enters the other kind's column.                                    *)
(***************************************************************************)
C6_SumAndMean ==
    AggReturned =>
        \A k \in 1..Len(OutTable.rows) : \A j \in 2..Len(OutTable.columns) :
            LET col == OutTable.columns[j]
                yr == OutTable.rows[k][1]
                v == OutTable.rows[k][j]
            IN  /\ \E s \in InputSexes :
                       col \in {s \o CountSuffix, s \o PercentSuffix}
                /\ \A s \in InputSexes :
                      /\ col = s \o CountSuffix =>
                             /\ CountRowsOf(yr, s) # <<>>
                             /\ v = RoundedSum(CountRowsOf(yr, s))
                      /\ col = s \o PercentSuffix =>
                             IF PercRowsOf(yr, s) = <<>> THEN v = 0
                             ELSE Some(v) = RoundedMean(PercRowsOf(yr, s))

\* A returned row whose bucket and sex have one count row and two
\* percentage rows of different values, and a row of the other unit kind
\* with another value in the same group.
C6_Witness ==
    /\ AggReturned
    /\ \E k \in 1..Len(OutTable.rows) : \E s \in InputSexes :
          LET yr == OutTable.rows[k][1]
              p == PercRowsOf(yr, s)
          IN  /\ Len(p) = 2
              /\ CoerceValue(p[1][5]) # CoerceValue(p[2][5])
              /\ Len(CountRowsOf(yr, s)) = 1

(***************************************************************************)
(* C7: a row whose statistic label does not hold the whole-word phrase     *)
(* "first year" / "1st year" leaves no trace: the stage returns what it    *)
(* returns on the same table without that row.                             *)
(***************************************************************************)
WithoutRow(t, i) ==
    [t EXCEPT !.rows = SubSeq(t.rows, 1, i - 1) \o SubSeq(t.rows, i + 1, Len(t.rows))]

C7_NonMatchingRowExcluded ==
    AggCalled =>
        \A i \in 1..Len(InputRows) :
            ~HasFirstYearPhrase(InputRows[i][1]) =>
                LastCall.ret =
                    process_first_year_stats(Some(WithoutRow(Get(df), i)),
                                             InjectedFault).ret

\* A table with a row is returned for an input that holds the row labelled
\* FIRST, whose bucket and sex occur in no other row.
C7_Witness ==
    /\ AggReturned
    /\ Len(OutTable.rows) >= 1
    /\ \E i \in 1..Len(InputRows) :
          /\ InputRows[i][1] = <<"F","I","R","S","T">>
          /\ \A j \in 1..Len(InputRows) :
                j # i => /\ InputRows[j][2] # InputRows[i][2]
                         /\ InputRows[j][3] # InputRows[i][3]

(***************************************************************************)
(* C10: missing cells are treated asymmetrically.  In a returned table a   *)
(* percent cell whose bucket and sex have no percentage row is 0.0.  When  *)
(* the counts pivot has a cell without a count row (its bucket has count   *)
(* rows, its sex has count rows in another bucket), the call returns no    *)
(* table and a transformation error.                                       *)
(***************************************************************************)
CountGap ==
    \E yr \in CountBuckets : \E s \in CountSexes : CountRowsOf(yr, s) = <<>>

PercGap(yr) ==
    \E s \in PercSexes : PercRowsOf(yr, s) = <<>>

HasAllColumns ==
    \A c \in Range(mandatory_cols) : HasCol(Get(df).columns, c)

C10_AsymmetricMissingCells ==
    AggCalled =>
        /\ AggReturned =>
              \A k \in 1..Len(OutTable.rows) : \A s \in PercSexes :
                  PercRowsOf(OutTable.rows[k][1], s) = <<>> =>
                      \E j \in 2..Len(OutTable.columns) :
                          /\ OutTable.columns[j] = s \o PercentSuffix
                          /\ OutTable.rows[k][j] = 0
        /\ (HasAllColumns /\ CountGap) =>
              /\ IsNone(LastCall.ret[1])
              /\ ~IsNone(LastCall.ret[2])
              /\ Get(LastCall.ret[2]).text = "Error transforming dataset"
              /\ IsNone(InjectedFault) =>
                    Get(LastCall.ret[2]).detail =
                        "Cannot convert non-finite values (NA or inf) to integer"

\* The counts pivot has an empty cell and nothing else went wrong: the call
\* failed on the integer conversion.
C10_Witness ==
    /\ AggCalled
    /\ HasAllColumns
    /\ CountGap
    /\ IsNone(InjectedFault)
    /\ IsNone(LastCall.ret[1])

\* A returned table that shows a filled percent cell.
C10_FilledWitness ==
    /\ AggReturned
    /\ \E k \in 1..Len(OutTable.rows) : PercGap(OutTable.rows[k][1])

(***************************************************************************)
(* process_first_year_stats on its own, over two years of                  *)
(* -MaxYear..MaxYear, each with a count row and a percentage row.          *)
(***************************************************************************)
YearRows(y) ==
    << << RowList[1][1], y, RowList[1][3], RowList[1][4], RowList[1][5] >>,
       << RowList[2][1], y, RowList[2][3], RowList[2][4], RowList[2][5] >> >>

InitBucket ==
    /\ pc = "process"
    /\ \E y1, y2 \in (-MaxYear)..MaxYear :
          df = Some(Table(RawColumns, YearRows(y1) \o YearRows(y2)))
    /\ df_processed = None
    /\ df_renamed = None
    /\ Idle

SpecBucket == InitBucket /\ [][ProcessStep]_vars

(***************************************************************************)
(* load_dataset on its own: read_csv raises, or yields a table whose       *)
(* header is any selection of ColumnPool.                                  *)
(***************************************************************************)
ColumnPool ==
    << <<"S","T","A","T","I","S","T","I","C">>,
       <<"S","t","a","t","i","s","t","i","c"," ","L","a","b","e","l">>,
       <<"S","t","a","t","i","s","t","i","c"," "," ","L","a","b","e","l">>,
       <<" ","Y","e","a","r">>,
       <<"y","e","a","r","\t">>,
       <<"Y","e","a","r","s">>,
       <<"S","e","x">>,
       <<"U","N","I","T">>,
       <<"V","A","L","U","E">>,
       <<" ","v","a","l","u","e"," ">> >>

InitLoad ==
    /\ pc = "load"
    /\ \/ source = [raises |-> Some("Failed to read"), table |-> Table(<<>>, <<>>)]
       \/ \E chosen \in SUBSET (1..Len(ColumnPool)) :
             source = [raises |-> None,
                       table |-> Table(SelectSeq(ColumnPool,
                                          LAMBDA c : \E i \in chosen : ColumnPool[i] = c),
                                       <<>>)]
    /\ df = None
    /\ df_processed = None
    /\ df_renamed = None
    /\ err = None
    /\ csv_path = "result.csv"
    /\ parquet_path = "result.parquet"
    /\ writable = Paths
    /\ files = NoFiles
    /\ log = <<>>
    /\ calls = <<>>
    /\ uncaught = None

SpecLoad == InitLoad /\ [][LoadStep]_vars

(***************************************************************************)
(* rename_header on its own, then on its own result: no table, no column,  *)
(* or any name of up to MaxNameLen characters of NameAlphabet, alone or    *)
(* after the header of test_rename_header_basic.                           *)
(***************************************************************************)
NameAlphabet == {"a", "B", " ", "_", ",", "("}

TestHeader ==
    << <<"C","o","l"," "," "," ","1">>,
       <<" ","C","o","l","(","2",")">>,
       <<"C","o","l",",",",",",",",","3">>,
       <<"c","o","l"," ","4">>,
       <<"C","O","L"," "," ","5">> >>

InitRename ==
    /\ pc = "rename"
    /\ \/ df_processed = None
       \/ df_processed = Some(Table(<<>>, <<>>))
       \/ \E name \in SeqsUpTo(NameAlphabet, MaxNameLen) :
          \E before \in {<<>>, TestHeader} :
             df_processed = Some(Table(before \o <<name>>, <<>>))
    /\ df = None
    /\ df_renamed = None
    /\ Idle

SpecRename == InitRename /\ [][RenameStep \/ RenameAgainStep]_vars

(***************************************************************************)
(* save_outputs on its own: any two destinations, any set of writable      *)
(* paths, with or without files left by an earlier run.                    *)
(***************************************************************************)
SavedTables ==
    { Table(<< <<"a">> >>, << <<1>> >>),
      Table(<< <<"y","e","a","r","_","r","a","n","g","e">>,
               <<"m","a","l","e","_","c","o","u","n","t">>,
               <<"m","a","l","e","_","p","e","r","c","e","n","t">> >>,
            << << <<"2","0","1","0","-","2","0","1","4">>, 100, 500 >> >>) }

InitSave ==
    /\ pc = "save"
    /\ df_renamed \in {Some(t) : t \in SavedTables}
    /\ csv_path \in Paths
    /\ parquet_path \in Paths
    /\ writable \in SUBSET Paths
    /\ files \in {NoFiles, OldFiles}
    /\ source = [raises |-> None, table |-> Table(<<>>, <<>>)]
    /\ df = None
    /\ df_processed = df_renamed
    /\ err = None
    /\ log = <<>>
    /\ calls = <<>>
    /\ uncaught = None

SpecSave == InitSave /\ [][SaveStep]_vars

(***************************************************************************)
(* The top-level run.                                                      *)
(***************************************************************************)
Rows(picks) == [i \in 1..Len(picks) |-> RowList[picks[i]]]

Sources ==
    { [raises |-> Some("Failed to read"), table |-> Table(<<>>, <<>>)],
      [raises |-> None, table |-> Table(NoSexColumns, Rows(<<1>>))],
      [raises |-> None, table |-> Table(RawColumns, <<>>)],
      [raises |-> None, table |-> Table(RawColumns, Rows(<<1, 2>>))],
      [raises |-> None, table |-> Table(RawColumns, Rows(<<1, 7>>))],
      [raises |-> None, table |-> Table(RawColumns, Rows(<<1, 2, 10, 11>>))],
      [raises |-> None, table |-> Table(RawColumns, Rows(<<12, 5, 6, 13>>))] }

Init ==
    /\ pc = "load"
    /\ source \in Sources
    /\ df = None
    /\ df_processed = None
    /\ df_renamed = None
    /\ err = None
    /\ csv_path = "result.csv"
    /\ parquet_path = "result.parquet"
    /\ writable \in SUBSET {"result.csv", "result.parquet"}
    /\ files \in {NoFiles, OldFiles}
    /\ log = <<>>
    /\ calls = <<>>
    /\ uncaught = None

Next == LoadStep \/ ProcessStep \/ RenameStep \/ SaveStep

Spec == Init /\ [][Next]_vars

(***************************************************************************)
(* C1: in the top-level run the stages are invoked in the order            *)
(* load_dataset, process_first_year_stats, rename_header, save_outputs; a  *)
(* stage is invoked only if every earlier stage returned a table; and at   *)
(* the end save_outputs has been invoked exactly when the three stages     *)
(* before it all returned a table.                                         *)
(***************************************************************************)
StageOrder ==
    <<"load_dataset", "process_first_year_stats", "rename_header",
      "save_outputs">>

ReturnedTable(i) == i <= Len(calls) /\ ~IsNone(calls[i].ret[1])

C1_StagesShortCircuit ==
    /\ Len(calls) <= Len(StageOrder)
    /\ \A i \in 1..Len(calls) :
          /\ calls[i].stage = StageOrder[i]
          /\ \A j \in 1..(i - 1) : ReturnedTable(j)
    /\ pc = "done" =>
          /\ (\E i \in 1..Len(calls) : calls[i].stage = "save_outputs")
                <=> (ReturnedTable(1) /\ ReturnedTable(2) /\ ReturnedTable(3))
          /\ \A i \in 1..Len(calls) :
                (calls[i].stage # "save_outputs" /\ ~ReturnedTable(i))
                    => Len(calls) = i

\* The run is over, process_first_year_stats returned no table, and neither
\* rename_header nor save_outputs was invoked.
C1_Witness ==
    /\ pc = "done"
    /\ Len(calls) = 2
    /\ ReturnedTable(1)
    /\ ~ReturnedTable(2)

(***************************************************************************)
(* C2: for a parsed table, load_dataset returns no table and an error      *)
(* listing exactly the mandatory columns that no column name equals after  *)
(* trimming and lowercasing, when there is such a column; otherwise it     *)
(* returns the table and no error.                                         *)
(***************************************************************************)
LoadCalled == calls # <<>> /\ LastCall.stage = "load_dataset"

MissingMandatory(columns) ==
    {m \in Range(mandatory_cols) :
        \A i \in 1..Len(columns) : Lower(Strip(columns[i])) # m}

C2_MissingColumnsListed ==
    (LoadCalled /\ IsNone(source.raises)) =>
        LET missing == MissingMandatory(source.table.columns)
            ret == LastCall.ret
        IN  IF missing # {}
            THEN /\ IsNone(ret[1])
                 /\ ~IsNone(ret[2])
                 /\ Get(ret[2]).text = "Schema error: missing mandatory columns"
                 /\ Range(Get(ret[2]).columns) = missing
                 /\ Len(Get(ret[2]).columns) = Cardinality(missing)
            ELSE ret = <<Some(source.table), None>>

\* Two mandatory columns are missing and are the two listed, while a
\* present one is spelt with padding or capitals.
C2_Witness ==
    /\ LoadCalled
    /\ IsNone(source.raises)
    /\ ~IsNone(LastCall.ret[2])
    /\ Len(Get(LastCall.ret[2]).columns) = 2
    /\ \E i \in 1..Len(source.table.columns) :
          /\ source.table.columns[i] \notin Range(mandatory_cols)
          /\ Lower(Strip(source.table.columns[i])) \in Range(mandatory_cols)

\* Nothing is missing, with a padded or capitalised spelling: the table is
\* returned.
C2_WitnessAccepted ==
    /\ LoadCalled
    /\ IsNone(source.raises)
    /\ ~IsNone(LastCall.ret[1])

(***************************************************************************)
(* C3: save_outputs attempts the CSV write and then the Parquet write on   *)
(* every call.  If the CSV write fails and the Parquet destination is      *)
(* writable, the Parquet file is created, the CSV destination is left as   *)
(* it was and an error naming CSV is logged.  If the Parquet write fails   *)
(* after the CSV write succeeded, the CSV file stays.  Nothing is raised   *)
(* to the caller.                                                          *)
(***************************************************************************)
SaveCalled == calls # <<>> /\ LastCall.stage = "save_outputs"

Failed(w) == ~IsNone(w.raised)

C3_IndependentWrites ==
    SaveCalled =>
        LET w == LastCall.writes
            t == Get(LastCall.arg)
        IN  /\ Len(w) = 2
            /\ w[1].format = "csv" /\ w[1].path = csv_path
            /\ w[2].format = "parquet" /\ w[2].path = parquet_path
            /\ IsNone(uncaught)
            /\ (Failed(w[1]) /\ parquet_path \in writable) =>
                  /\ files[parquet_path] = Some(FileOf("parquet", t))
                  /\ files[csv_path] = LastCall.before[csv_path]
                  /\ \E i \in 1..Len(log) :
                        /\ log[i].level = "ERROR"
                        /\ log[i].msg.text = "Error saving CSV"
            /\ (Failed(w[2]) /\ ~Failed(w[1])) =>
                  files[csv_path] = Some(FileOf("csv", t))

\* The CSV destination is unwritable and held no file, the Parquet
\* destination is writable: after the call only the Parquet file exists.
C3_Witness ==
    /\ SaveCalled
    /\ Failed(LastCall.writes[1])
    /\ parquet_path \in writable
    /\ IsNone(LastCall.before[csv_path])
    /\ IsNone(files[csv_path])
    /\ ~IsNone(files[parquet_path])

(***************************************************************************)
(* C4: every column name rename_header returns is lowercase, holds no      *)
(* whitespace, comma or parenthesis, holds no two underscores in a row and *)
(* does not end in an underscore; and rename_header applied to its own     *)
(* result returns the same column names.                                   *)
(***************************************************************************)
Canonical(name) ==
    /\ \A i \in 1..Len(name) :
          name[i] \notin UpperCase \cup Whitespace \cup {",", "(", ")"}
    /\ \A i \in 1..(Len(name) - 1) : ~(name[i] = "_" /\ name[i + 1] = "_")
    /\ name # <<>> => name[Len(name)] # "_"

RenameCalls ==
    /\ calls # <<>>
    /\ \A i \in 1..Len(calls) : calls[i].stage = "rename_header"

C4_RenameIdempotent ==
    RenameCalls =>
        /\ \A i \in 1..Len(calls) :
              ~IsNone(calls[i].ret[1]) =>
                  LET out == Get(calls[i].ret[1]).columns
                      arg == Get(calls[i].arg).columns
                  IN  /\ Len(out) = Len(arg)
                      /\ \A k \in 1..Len(out) : Canonical(out[k])
        /\ (Len(calls) = 2 /\ ~IsNone(calls[2].ret[1])) =>
              Get(calls[2].ret[1]).columns = Get(calls[1].ret[1]).columns

\* rename_header ran twice; the first run changed every name it was given,
\* one of which had capitals, separators and underscores to clean up.
C4_Witness ==
    /\ RenameCalls
    /\ Len(calls) = 2
    /\ ~IsNone(calls[2].ret[1])
    /\ LET arg == Get(calls[1].arg).columns
           out == Get(calls[1].ret[1]).columns
       IN  /\ Len(arg) > Len(TestHeader)
           /\ \A k \in 1..Len(arg) : arg[k] # out[k]
           /\ \E k \in 1..Len(arg) :
                 /\ arg[k][Len(arg[k])] = "_"
                 /\ \E i \in 1..Len(arg[k]) : arg[k][i] = "B"
                 /\ \E i \in 1..Len(arg[k]) : arg[k][i] = ","

(***************************************************************************)
(* C8: load_dataset, process_first_year_stats and rename_header return a   *)
(* pair of which exactly one component is present; an exception raised     *)
(* inside the stage becomes (no table, error holding the exception's       *)
(* message), and none reaches the top-level run.                           *)
(***************************************************************************)
PairStages == {"load_dataset", "process_first_year_stats", "rename_header"}

C8_ExactlyOneOfTableAndError ==
    /\ IsNone(uncaught)
    /\ \A i \in 1..Len(calls) :
          calls[i].stage \in PairStages =>
              /\ IsNone(calls[i].ret[1]) # IsNone(calls[i].ret[2])
              /\ ~IsNone(calls[i].raised) =>
                    /\ IsNone(calls[i].ret[1])
                    /\ ~IsNone(calls[i].ret[2])
                    /\ Get(calls[i].ret[2]).detail = Get(calls[i].raised)

\* The read failed inside load_dataset and came back as its error.
C8_Witness ==
    /\ calls # <<>>
    /\ calls[1].stage = "load_dataset"
    /\ calls[1].raised = Some("Failed to read")
    /\ Get(calls[1].ret[2]).detail = "Failed to read"
    /\ pc = "done"

(***************************************************************************)
(* C9: every year falls in exactly one period bucket: year_group is a      *)
(* multiple of 5 with year_group <= year <= year_group + 4, the label      *)
(* reads "{year_group}-{year_group+4}", the label is a row of the result,  *)
(* and two years share a label exactly when they share floor(year/5).      *)
(***************************************************************************)
\* floor(y / 5), as the one integer q with 5q <= y < 5q + 5
Floor5(y) == CHOOSE q \in (-(MaxYear + 5))..(MaxYear + 5) : 5 * q <= y /\ y < 5 * q + 5

\* The label reads "<g>-<g+4>" in decimal.
LabelReads(label, g) ==
    \E k \in 2..(Len(label) - 1) :
        /\ label[k] = "-"
        /\ ParseNumber(SubSeq(label, 1, k - 1)) = Some(100 * g)
        /\ ParseNumber(SubSeq(label, k + 1, Len(label))) = Some(100 * (g + 4))

InputYears == {InputRows[i][2] : i \in 1..Len(InputRows)}

C9_OneBucketPerYear ==
    AggReturned =>
        /\ \A y \in InputYears :
              /\ year_group(y) % 5 = 0
              /\ year_group(y) <= y /\ y <= year_group(y) + 4
              /\ LabelReads(year_range(y), year_group(y))
              /\ year_range(y) \in OutLabels
        /\ \A y1, y2 \in InputYears :
              (year_range(y1) = year_range(y2)) <=> (Floor5(y1) = Floor5(y2))
        /\ Len(OutTable.rows) = Cardinality({Floor5(y) : y \in InputYears})

\* A negative year that is no multiple of 5 and a negative multiple of 5
\* share one bucket and one output row.
C9_Witness ==
    /\ AggReturned
    /\ \E y1, y2 \in InputYears :
          /\ y1 < 0 /\ y1 % 5 # 0
          /\ y2 < 0 /\ y2 % 5 = 0
          /\ y1 # y2
          /\ year_range(y1) = year_range(y2)
    /\ Len(OutTable.rows) = 1

====
